---------------------------- MODULE Spec2Model ----------------------------
(***************************************************************************)
(* State-machine model of src/server.js (the "High-Frequency Arbitrage    *)
(* Engine"): the module-level state, initProvider, getTreasuryBalance,    *)
(* transferEth, executeStrategyTrade, startAutoTrader and the HTTP         *)
(* handlers /status, /execute-arbitrage and /withdraw.                     *)
(*                                                                         *)
(* JavaScript runs one callback at a time, so every action below is one   *)
(* run-to-completion segment: it starts when an awaited network call      *)
(* settles (or a timer / request arrives) and runs the synchronous code   *)
(* up to the next awaited network call.  Awaits on already-settled        *)
(* promises of local async functions are folded into the segment.         *)
(*                                                                         *)
(* Units: ETH amounts are integers in milli-ETH (0.001 ETH), USD amounts  *)
(* in milli-USD.  Every amount of the model has at most four significant  *)
(* digits, where toFixed(18)/parseEther and formatEther/parseFloat are    *)
(* exact, so both are the same number in the two units.                   *)
(***************************************************************************)
EXTENDS Integers, Sequences, FiniteSets, Bags, TLC

\* ------------------------------------------------------------------ bounds
MaxStarts == 2        \* invocations (ticks, requests, calls) started in one behaviour,
                      \* the first tick of startAutoTrader included; all may overlap

\* ------------------------------------------------------- program constants
ETH_PRICE                == 3450     \* USD per ETH
MIN_GAS_ETH              == 10       \* 0.01 ETH
AGGREGATE_PROFIT_ETH     == 1000     \* 1.0 ETH
STRATEGIES_PER_EXECUTION == 450
WITHDRAW_RESERVE         == 3        \* 0.003 ETH, the literal of /withdraw
AGGREGATE_PROFIT_USD     == AGGREGATE_PROFIT_ETH * ETH_PRICE

TREASURY == "signer.address"
COINBASE_WALLET == "0x4024Fd78E2AD5532FBF3ec2B3eC83870FAe45fC7"

\* ----------------------------------------------------- environment inputs
Keys     == {"none", "valid", "invalid"}   \* TREASURY_PRIVATE_KEY: unset, a key, a malformed key
Balances == {5, 10, 1000}                  \* what provider.getBalance can answer
Amounts  == {0, 7}                         \* amountETH of a withdraw request / transfer call
TxHashes == {170}                          \* tx.hash of a broadcast transaction
Blocks   == {7}                            \* receipt.blockNumber
Ok       == {1}                            \* an answer whose content the code does not branch on
Fail     == 0 - 1                          \* the awaited call rejected
\* The arrays line 61 can build, as the runs <<first, last>> of consecutive ids
\* whose profitCheck is true: none, only the last id, all 450.
Batches  == {{}, {<<STRATEGIES_PER_EXECUTION, STRATEGIES_PER_EXECUTION>>},
             {<<1, STRATEGIES_PER_EXECUTION>>}}

Null == [null |-> TRUE]

VARIABLES
    provider,                  \* let provider: TRUE = a FallbackProvider, FALSE = null
    signer,                    \* let signer: TRUE = a Wallet, FALSE = null
    lastExecutionResult,
    monitorStatus,
    totalStrategiesExecuted,
    totalRealizedToTreasury,
    PRIVATE_KEY,               \* process.env.TREASURY_PRIVATE_KEY
    STRATEGIES,                \* the runs of ids whose profitCheck is true
    boot,                      \* position of the start-up chain
    procs,                     \* the invocations in flight: a bag of frames
    returned,                  \* the frame of the invocation that returned in the last step
    started,                   \* invocations started so far
    crashed,                   \* an error left an async function uncaught
    read                       \* one read of the provider seen endpoint by endpoint

vars == <<provider, signer, lastExecutionResult, monitorStatus,
          totalStrategiesExecuted, totalRealizedToTreasury, PRIVATE_KEY,
          STRATEGIES, boot, procs, returned, started, crashed, read>>

\* An invocation: its kind, where it is suspended, its locals, what it
\* returned, and counts of what it did (history, read by the properties only).
IdleProc ==
    [kind |-> "none", pc |-> "idle", amountETH |-> 0, recipient |-> "none",
     balance |-> 0, profitableStrategies |-> 0,
     value |-> 0, txBalance |-> Fail, txHash |-> 0,
     outcome |-> Null, http |-> 0,
     transfers |-> 0, feeReads |-> 0, sends |-> 0,
     dChecks |-> 0, dRealized |-> 0]

ExecKinds == {"tick", "manual"}

\* The machine an invocation runs on: the module-level variables and its own frame p.
M(p) ==
    [provider |-> provider, signer |-> signer,
     lastExecutionResult |-> lastExecutionResult,
     monitorStatus |-> monitorStatus,
     totalStrategiesExecuted |-> totalStrategiesExecuted,
     totalRealizedToTreasury |-> totalRealizedToTreasury,
     crashed |-> crashed, p |-> p]

\* The segment of the invocation with frame p ran and left the machine m.
Commit(p, m) ==
    /\ provider' = m.provider
    /\ signer' = m.signer
    /\ lastExecutionResult' = m.lastExecutionResult
    /\ monitorStatus' = m.monitorStatus
    /\ totalStrategiesExecuted' = m.totalStrategiesExecuted
    /\ totalRealizedToTreasury' = m.totalRealizedToTreasury
    /\ crashed' = m.crashed
    /\ procs' = IF m.p.pc = "done" THEN procs (-) SetToBag({p})
                ELSE (procs (-) SetToBag({p})) (+) SetToBag({m.p})
    /\ returned' = IF m.p.pc = "done" THEN m.p ELSE IdleProc
    /\ read' = read

Finish(m, out, code) ==
    [m EXCEPT !.p.pc = "done", !.p.outcome = out, !.p.http = code]


\* ------------------------------------------------------------ error values
ErrNoSigner     == "Private key not set. Cannot perform real transaction."
ErrInsufficient == "Insufficient ETH balance in Treasury to cover aggregated transfer value."
ErrNull         == "TypeError: Cannot read properties of null"
ErrBalance      == "getBalance rejected"
ErrFee          == "getFeeData rejected"
ErrSend         == "sendTransaction rejected"
ErrWait         == "tx.wait rejected"

\* new Date(): the instants the model tells apart are the starts of invocations
Now == started

\* ============================================================ initProvider
\* line 79, up to the await of getBlockNumber
InitProviderStart(m) ==
    [m EXCEPT !.monitorStatus = "connecting", !.p.pc = "init"]

\* a signer made whether or not a key is configured
HasCredentialNoCheck(key) == TRUE
\* line 90: if (PRIVATE_KEY)
HasCredential(key) == key # "none"

\* the catch block without line 101
InitProviderKeepsSigner(m, probe) ==
    IF probe # Fail /\ PRIVATE_KEY # "invalid"
    THEN [m EXCEPT !.provider = TRUE, !.monitorStatus = "connected",
                   !.signer = IF HasCredential(PRIVATE_KEY) THEN TRUE ELSE @]
    ELSE [m EXCEPT !.provider = FALSE, !.monitorStatus = "disconnected"]
\* lines 84-104, from the settled getBlockNumber to the return.  new
\* ethers.Wallet throws on a malformed key, inside the try.
InitProviderGlobals(m, probe) ==
    IF probe # Fail /\ PRIVATE_KEY # "invalid"
    THEN [m EXCEPT !.provider = TRUE, !.monitorStatus = "connected",
                   !.signer = IF HasCredential(PRIVATE_KEY) THEN TRUE ELSE @]
    ELSE [m EXCEPT !.provider = FALSE, !.signer = FALSE,
                   !.monitorStatus = "disconnected"]

\* ================================================= executeStrategyTrade, end
\* lines 236-241: the finally block
ExecFinally(m) ==
    [m EXCEPT !.lastExecutionResult =
                  [result |-> m.lastExecutionResult, timestamp |-> Now]]

\* lines 298-302 for a manual execution; the timer drops the returned promise
ExecReturn(m, out) ==
    Finish(m, out, IF m.p.kind = "manual"
                   THEN (IF "error" \in DOMAIN out THEN 400 ELSE 200)
                   ELSE 0)

\* no try block around the transfer
ExecTryCoversNothing(line) == FALSE
\* lines 194-227: the statements the try block covers
ExecTryCovers(line) == line >= 194 /\ line <= 226

\* lines 227-235: the catch block
FailedOutcome(msg) ==
    [success |-> FALSE, mode |-> "arbitrage_execution_failed", error |-> msg,
     aggregatedProfitETH |-> AGGREGATE_PROFIT_ETH]

\* an error raised at `line` of executeStrategyTrade
ExecThrow(m, msg, line) ==
    IF ExecTryCovers(line)
    THEN ExecReturn(ExecFinally(m), FailedOutcome(msg))
    ELSE Finish([m EXCEPT !.crashed = TRUE], [uncaught |-> msg], 0)

\* lines 212-225
SuccessOutcome(m, tx, receipt) ==
    [success |-> TRUE, mode |-> "high_frequency_arbitrage",
     strategiesChecked |-> STRATEGIES_PER_EXECUTION,
     profitablePaths |-> m.p.profitableStrategies,
     aggregatedProfitUSD |-> AGGREGATE_PROFIT_USD,
     aggregatedProfitETH |-> AGGREGATE_PROFIT_ETH,
     depositRecipient |-> TREASURY,
     txHash |-> tx, blockNumber |-> receipt]

\* line 208 written as an assignment instead of +=
ExecAfterTransferAssigns(m, tx, receipt) ==
    LET m1 == [m EXCEPT !.totalRealizedToTreasury = AGGREGATE_PROFIT_USD,
                        !.p.dRealized = @ + AGGREGATE_PROFIT_USD]
    IN  IF m1.signer
        THEN ExecReturn(ExecFinally(m1), SuccessOutcome(m1, tx, receipt))
        ELSE ExecThrow(m1, ErrNull, 221)
\* lines 205-225: transferEth returned {tx, receipt}
ExecAfterTransfer(m, tx, receipt) ==
    LET m1 == [m EXCEPT !.totalRealizedToTreasury = @ + AGGREGATE_PROFIT_USD,
                        !.p.dRealized = @ + AGGREGATE_PROFIT_USD]
    IN  IF m1.signer
        THEN ExecReturn(ExecFinally(m1), SuccessOutcome(m1, tx, receipt))
        ELSE ExecThrow(m1, ErrNull, 221)

\* ========================================================== /withdraw, end
\* lines 333-342, and 344-347 when signer.address is read from null
WithdrawAfterTransfer(m, tx, receipt) ==
    IF m.signer
    THEN Finish(m, [success |-> TRUE, txHash |-> tx, amount |-> m.p.amountETH,
                    amountUSD |-> m.p.amountETH * ETH_PRICE, from |-> TREASURY,
                    to |-> COINBASE_WALLET, blockNumber |-> receipt], 200)
    ELSE Finish(m, [error |-> ErrNull], 500)

\* lines 344-347
WithdrawCatch(m, msg) == Finish(m, [error |-> msg], 500)

\* ============================================================= transferEth
\* line 148 back in the caller
TransferReturn(m, tx, receipt) ==
    CASE m.p.kind \in ExecKinds -> ExecAfterTransfer(m, tx, receipt)
      [] m.p.kind = "withdraw"  -> WithdrawAfterTransfer(m, tx, receipt)
      [] OTHER                  -> Finish(m, [tx |-> tx, receipt |-> receipt], 0)

\* transferEth rejects: line 205 or line 331 of the caller
TransferThrow(m, msg) ==
    CASE m.p.kind \in ExecKinds -> ExecThrow(m, msg, 205)
      [] m.p.kind = "withdraw"  -> WithdrawCatch(m, msg)
      [] OTHER                  -> Finish(m, [threw |-> msg], 0)

\* line 127: if (!signer) throw
SignerMissing(m) == ~m.signer

\* line 130: ethers.parseEther(amountETH.toFixed(18))
ParseEtherFixed18(amountETH) == amountETH

\* no balance check before the fee read
InsufficientNoCheck(balance, value) == FALSE
\* line 133: if (balance < value) throw
Insufficient(balance, value) == balance < value

\* lines 126-131, up to the await of provider.getBalance
TransferEthStart(m, amountETH, recipient) ==
    LET m0 == [m EXCEPT !.p.transfers = @ + 1, !.p.amountETH = amountETH,
                        !.p.recipient = recipient]
    IN  IF SignerMissing(m0) THEN TransferThrow(m0, ErrNoSigner)
        ELSE IF ~m0.provider THEN TransferThrow(m0, ErrNull)
        ELSE [m0 EXCEPT !.p.pc = "txbal",
                        !.p.value = ParseEtherFixed18(amountETH)]

\* lines 131-137, from the settled getBalance to the await of getFeeData
TransferEthBalance(m, bal) ==
    LET m0 == [m EXCEPT !.p.txBalance = bal]
    IN  IF bal = Fail THEN TransferThrow(m0, ErrBalance)
        ELSE IF Insufficient(bal, m0.p.value) THEN TransferThrow(m0, ErrInsufficient)
        ELSE IF ~m0.provider THEN TransferThrow(m0, ErrNull)
        ELSE [m0 EXCEPT !.p.pc = "fee", !.p.feeReads = @ + 1]

\* lines 137-145, from the settled getFeeData to the await of sendTransaction
TransferEthFee(m, fee) ==
    IF fee = Fail THEN TransferThrow(m, ErrFee)
    ELSE IF ~m.signer THEN TransferThrow(m, ErrNull)
    ELSE [m EXCEPT !.p.pc = "send", !.p.sends = @ + 1]

\* lines 139-147, from the settled sendTransaction to the await of tx.wait
TransferEthSent(m, tx) ==
    IF tx = Fail THEN TransferThrow(m, ErrSend)
    ELSE [m EXCEPT !.p.pc = "confirm", !.p.txHash = tx]

\* lines 147-148
TransferEthConfirmed(m, receipt) ==
    IF receipt = Fail THEN TransferThrow(m, ErrWait)
    ELSE TransferReturn(m, m.p.txHash, receipt)

\* ================================================ executeStrategyTrade, body
\* line 178: STRATEGIES[i].profitCheck (the element at index i has id i + 1)
ProfitCheck(i) == \E run \in STRATEGIES : run[1] <= i + 1 /\ i + 1 <= run[2]

\* the loop counting a check only at a positive signal
SearchCountsPositives ==
    LET hits == {i \in 0..(STRATEGIES_PER_EXECUTION - 1) : ProfitCheck(i)}
    IN  [profitableStrategies |-> Cardinality(hits), counted |-> Cardinality(hits)]
\* lines 173-184: the loop visits every index 0 <= i < STRATEGIES_PER_EXECUTION
\* once; it adds one to profitableStrategies at the indices whose profitCheck
\* is true and one to totalStrategiesExecuted at every index, so each total is
\* the number of indices that add to it.  `counted` is what the loop adds to
\* totalStrategiesExecuted.  (strategyIdsExecuted is written and never read.)
Search ==
    [profitableStrategies |->
         Cardinality({i \in 0..(STRATEGIES_PER_EXECUTION - 1) : ProfitCheck(i)}),
     counted |-> Cardinality({i \in 0..(STRATEGIES_PER_EXECUTION - 1) : TRUE})]

\* line 160
NoKeyOutcome ==
    [error |-> "Treasury private key not set. Cannot execute real transactions."]

\* lines 164-169
NeedsFundingOutcome(balance) ==
    [error |-> "Treasury needs gas funding", treasuryBalance |-> balance,
     minRequired |-> MIN_GAS_ETH, treasuryWallet |-> TREASURY]

\* line 191
NoProfitOutcome ==
    [success |-> FALSE, message |-> "No profitable arbitrage paths found."]

\* lines 156-205, from the settled getTreasuryBalance to the await of transferEth
ExecAfterBalance(m, balance) ==
    IF ~m.signer THEN ExecReturn(m, NoKeyOutcome)
    ELSE IF balance < MIN_GAS_ETH THEN ExecReturn(m, NeedsFundingOutcome(balance))
    ELSE LET r  == Search
             m1 == [m EXCEPT !.totalStrategiesExecuted = @ + r.counted,
                             !.p.dChecks = @ + r.counted,
                             !.p.profitableStrategies = r.profitableStrategies]
         IN  IF r.profitableStrategies = 0 THEN ExecReturn(m1, NoProfitOutcome)
             ELSE TransferEthStart(m1, AGGREGATE_PROFIT_ETH, TREASURY)

\* ========================================================= /withdraw, body
\* lines 323-327
InvalidAmountOutcome(balance) ==
    [error |-> "Invalid withdrawable amount.", treasuryBalance |-> balance,
     maxWithdrawable |-> balance - WITHDRAW_RESERVE]

\* the amount is handed to transferEth unchecked
WithdrawAmountUnchecked(m, balance) ==
    TransferEthStart(m, m.p.amountETH, COINBASE_WALLET)
\* lines 319-331, from the settled getTreasuryBalance to the await of transferEth
WithdrawAfterBalance(m, balance) ==
    LET maxSend == balance - WITHDRAW_RESERVE
    IN  IF m.p.amountETH <= 0 \/ m.p.amountETH > maxSend
        THEN Finish(m, InvalidAmountOutcome(balance), 400)
        ELSE TransferEthStart(m, m.p.amountETH, COINBASE_WALLET)

\* ================================================================= /status
\* lines 270-288: the snapshot sent once getTreasuryBalance settled
StatusRespond(m, balance) ==
    Finish(m, [status |-> m.monitorStatus,
               blockchainConnection |->
                   IF m.provider THEN "robust_connected" ELSE "disconnected",
               treasuryBalance |-> balance,
               totalRealizedToTreasuryUSD |-> m.totalRealizedToTreasury,
               totalStrategiesExecuted |-> m.totalStrategiesExecuted,
               lastExecutionResult |-> m.lastExecutionResult,
               timestamp |-> Now], 200)

\* ====================================================== getTreasuryBalance
\* line 116: parseFloat(ethers.formatEther(bal))
ParseFloatFormatEther(bal) == bal

\* getTreasuryBalance returned `balance` to its caller
BalanceReturn(m, balance) ==
    LET m0 == [m EXCEPT !.p.balance = balance]
    IN  CASE m.p.kind \in ExecKinds -> ExecAfterBalance(m0, balance)
          [] m.p.kind = "withdraw"  -> WithdrawAfterBalance(m0, balance)
          [] OTHER                  -> StatusRespond(m0, balance)

\* lines 114-115, after the connection attempt (if any): return 0 without a
\* signer, else start provider.getBalance; a null provider throws into line 117
BalanceAfterInit(m) ==
    IF ~m.signer THEN BalanceReturn(m, 0)
    ELSE IF ~m.provider THEN BalanceReturn(m, 0)
    ELSE [m EXCEPT !.p.pc = "bal"]

\* line 113: if (!provider || !signer) await initProvider()
BalanceStart(m) ==
    IF ~m.provider \/ ~m.signer THEN InitProviderStart(m)
    ELSE BalanceAfterInit(m)

\* lines 84-104 then 114-115: the connection attempt of this call settled
BalanceConnected(m, probe) == BalanceAfterInit(InitProviderGlobals(m, probe))

\* lines 115-119: provider.getBalance settled
BalanceRead(m, bal) ==
    IF bal = Fail THEN BalanceReturn(m, 0)
    ELSE BalanceReturn(m, ParseFloatFormatEther(bal))

\* ============================================== the provider's endpoints
\* line 82: new ethers.FallbackProvider(providers, 1): the second argument is
\* the quorum, the weight of agreeing answers the provider waits for
QUORUM == 1

\* line 81: RPC_URLS.map(...), one JsonRpcProvider (weight 1) per URL; three
\* of the five or six URLs of lines 44-54
Endpoints == 1..3

\* what the endpoints answer to one request: each a value or a rejection
Responses == [Endpoints -> Balances \cup {Fail}]

\* the endpoints that gave the answer v
Agreeing(responses, v) == Cardinality({e \in Endpoints : responses[e] = v})

\* lines 82 and 115: the outcomes provider.getBalance can settle with when the
\* endpoints answer `responses`: an outcome that QUORUM endpoints gave (which
\* of them depends on the order the endpoints are asked and answer in); the
\* call rejects when no outcome has that weight
FallbackRead(responses) ==
    LET reached == {v \in Balances \cup {Fail} : Agreeing(responses, v) >= QUORUM}
    IN  IF reached = {} THEN {Fail} ELSE reached

NoRead == [state |-> "idle", responses |-> [e \in Endpoints |-> Fail], value |-> Fail]

\* ===================================================================== Init
\* The module-level state as lines 61-72 leave it, before line 355 runs.
Init ==
    /\ provider = FALSE
    /\ signer = FALSE
    /\ lastExecutionResult = Null
    /\ monitorStatus = "initializing"
    /\ totalStrategiesExecuted = 0
    /\ totalRealizedToTreasury = 0
    /\ PRIVATE_KEY \in Keys
    /\ STRATEGIES \in Batches
    /\ boot = "load"
    /\ procs = EmptyBag
    /\ returned = IdleProc
    /\ started = 0
    /\ crashed = FALSE
    /\ read = NoRead

Config == <<PRIVATE_KEY, STRATEGIES>>

InFlight == BagToSet(procs)
NewProc(kind, amountETH) ==
    [IdleProc EXCEPT !.kind = kind, !.pc = "run", !.amountETH = amountETH]
CanStart ==
    /\ boot = "listening"
    /\ ~crashed
    /\ started < MaxStarts

\* ================================================================= start-up
\* line 355: initProvider() is called, up to its await
Boot ==
    /\ boot = "load"
    /\ boot' = "connecting"
    /\ monitorStatus' = "connecting"
    /\ UNCHANGED <<provider, signer, lastExecutionResult,
                   totalStrategiesExecuted, totalRealizedToTreasury,
                   PRIVATE_KEY, STRATEGIES, procs, returned, started, crashed,
                   read>>

\* lines 84-104, 355-360 and 248-253: the first connection attempt settles,
\* the server listens, startAutoTrader arms the timer and runs the first
\* executeStrategyTrade up to its first await
BootConnected ==
    /\ boot = "connecting"
    /\ \E probe \in Ok \cup {Fail} :
          LET p == NewProc("tick", 0)
          IN  Commit(p, BalanceStart(InitProviderGlobals(M(p), probe)))
    /\ boot' = "listening"
    /\ started' = 1
    /\ UNCHANGED Config

\* ============================================================= invocations
\* line 252: the interval timer fires executeStrategyTrade
TimerFire ==
    /\ CanStart
    /\ LET p == NewProc("tick", 0) IN Commit(p, BalanceStart(M(p)))
    /\ started' = started + 1
    /\ UNCHANGED <<Config, boot>>

\* lines 295-296: POST /execute-arbitrage
ManualRequest ==
    /\ CanStart
    /\ LET p == NewProc("manual", 0) IN Commit(p, BalanceStart(M(p)))
    /\ started' = started + 1
    /\ UNCHANGED <<Config, boot>>

\* lines 269-270: GET /status
StatusRequest ==
    /\ CanStart
    /\ LET p == NewProc("status", 0) IN Commit(p, BalanceStart(M(p)))
    /\ started' = started + 1
    /\ UNCHANGED <<Config, boot>>

\* line 316
WithdrawNoKeyOutcome ==
    [error |-> "Treasury private key not set. Cannot perform withdrawal."]

\* lines 312-319 of POST /withdraw, up to the await of getTreasuryBalance
WithdrawStart(m) ==
    IF ~m.signer
    THEN Finish(m, WithdrawNoKeyOutcome, 400)
    ELSE BalanceStart(m)

\* line 310: POST /withdraw with body {amountETH}
WithdrawRequest ==
    /\ CanStart
    /\ \E amountETH \in Amounts :
          LET p == NewProc("withdraw", amountETH) IN Commit(p, WithdrawStart(M(p)))
    /\ started' = started + 1
    /\ UNCHANGED <<Config, boot>>

\* lines 126-131: transferEth(amountETH, recipient) called on its own
TransferCall ==
    /\ CanStart
    /\ \E amountETH \in Amounts :
          LET p == NewProc("transfer", amountETH)
          IN  Commit(p, TransferEthStart(M(p), amountETH, COINBASE_WALLET))
    /\ started' = started + 1
    /\ UNCHANGED <<Config, boot>>

\* ====================================================== awaited calls settle
Settle(p, pc) == ~crashed /\ p.pc = pc /\ UNCHANGED <<Config, boot, started>>

\* line 84: fallbackProvider.getBlockNumber() of a getTreasuryBalance caller
ConnectSettledWith(p, probe) ==
    /\ Settle(p, "init")
    /\ Commit(p, BalanceConnected(M(p), probe))

ConnectSettled(p) == \E probe \in Ok \cup {Fail} : ConnectSettledWith(p, probe)

\* line 115: provider.getBalance(signer.address)
BalanceSettled(p) ==
    /\ Settle(p, "bal")
    /\ \E bal \in Balances \cup {Fail} : Commit(p, BalanceRead(M(p), bal))

\* line 131: provider.getBalance(signer.address)
TransferBalanceSettled(p) ==
    /\ Settle(p, "txbal")
    /\ \E bal \in Balances \cup {Fail} : Commit(p, TransferEthBalance(M(p), bal))

\* line 137: provider.getFeeData()
FeeSettled(p) ==
    /\ Settle(p, "fee")
    /\ \E fee \in Ok \cup {Fail} : Commit(p, TransferEthFee(M(p), fee))

\* line 139: signer.sendTransaction(...)
SendSettled(p) ==
    /\ Settle(p, "send")
    /\ \E tx \in TxHashes \cup {Fail} : Commit(p, TransferEthSent(M(p), tx))

\* line 147: tx.wait()
ConfirmSettled(p) ==
    /\ Settle(p, "confirm")
    /\ \E receipt \in Blocks \cup {Fail} : Commit(p, TransferEthConfirmed(M(p), receipt))

Next ==
    \/ Boot
    \/ BootConnected
    \/ TimerFire
    \/ ManualRequest
    \/ StatusRequest
    \/ WithdrawRequest
    \/ TransferCall
    \/ \E p \in InFlight : ConnectSettled(p)
    \/ \E p \in InFlight : BalanceSettled(p)
    \/ \E p \in InFlight : TransferBalanceSettled(p)
    \/ \E p \in InFlight : FeeSettled(p)
    \/ \E p \in InFlight : SendSettled(p)
    \/ \E p \in InFlight : ConfirmSettled(p)

Spec == Init /\ [][Next]_vars

\* ------------------------------------------- one read, endpoint by endpoint
\* The server connected with a credential (lines 87-91 ran) and idle.
ReadInit ==
    /\ provider = TRUE /\ signer = TRUE
    /\ monitorStatus = "connected"
    /\ lastExecutionResult = Null
    /\ totalStrategiesExecuted = 0 /\ totalRealizedToTreasury = 0
    /\ PRIVATE_KEY = "valid" /\ STRATEGIES \in Batches
    /\ boot = "listening" /\ procs = EmptyBag /\ returned = IdleProc
    /\ started = 1 /\ crashed = FALSE
    /\ read = NoRead

ReadFrame ==
    UNCHANGED <<provider, signer, lastExecutionResult, monitorStatus,
                totalStrategiesExecuted, totalRealizedToTreasury, PRIVATE_KEY,
                STRATEGIES, boot, procs, returned, started, crashed>>

\* line 115: provider.getBalance(signer.address) is called
ReadAsked ==
    /\ read.state # "asked"
    /\ read' = [NoRead EXCEPT !.state = "asked"]
    /\ ReadFrame

\* line 115: the endpoints answered and the call settles
ReadSettled ==
    /\ read.state = "asked"
    /\ \E responses \in Responses : \E v \in FallbackRead(responses) :
          read' = [state |-> "settled", responses |-> responses, value |-> v]
    /\ ReadFrame

ReadNext == ReadAsked \/ ReadSettled

ReadSpec == ReadInit /\ [][ReadNext]_vars

\* What the code's scheduling guarantees.  Line 355 runs at module load.  A
\* JSON-RPC request (getBlockNumber, getBalance, getFeeData, sendTransaction)
\* is one HTTP exchange that ends with an answer or a rejection, and the event
\* loop then resumes the awaiting function.  tx.wait() at line 147 is called
\* with no confirmation count and no timeout: it settles only when the network
\* mines, replaces or reverts the transaction, which nothing in the program
\* brings about, so the confirmation wait has no fairness.  Timer firings and
\* requests are left to the environment.
FairSpec ==
    /\ Spec
    /\ WF_vars(Boot)
    /\ WF_vars(BootConnected)
    /\ WF_vars(\E p \in InFlight : ConnectSettled(p))
    /\ WF_vars(\E p \in InFlight : BalanceSettled(p))
    /\ WF_vars(\E p \in InFlight : TransferBalanceSettled(p))
    /\ WF_vars(\E p \in InFlight : FeeSettled(p))
    /\ WF_vars(\E p \in InFlight : SendSettled(p))

TypeOK ==
    /\ provider \in BOOLEAN /\ signer \in BOOLEAN /\ crashed \in BOOLEAN
    /\ monitorStatus \in {"initializing", "connecting", "connected", "disconnected"}
    /\ boot \in {"load", "connecting", "listening"}
    /\ started \in 0..MaxStarts
    /\ BagCardinality(procs) <= MaxStarts
    /\ returned.pc \in {"idle", "done"}
    /\ \A p \in InFlight :
          p.pc \in {"init", "bal", "txbal", "fee", "send", "confirm"}

\* ============================================================== properties
\* the frames of kind `kinds` in flight
InFlightCount(kinds) ==
    BagCardinality([p \in {q \in InFlight : q.kind \in kinds} |-> procs[p]])

\* an invocation of one of `kinds` returned in the last step
Returned(kinds) == returned.pc = "done" /\ returned.kind \in kinds

\* the message of the error an invocation ended with, "" if none
ErrorOf(p) ==
    IF "error" \in DOMAIN p.outcome THEN p.outcome.error
    ELSE IF "threw" \in DOMAIN p.outcome THEN p.outcome.threw
    ELSE ""

\* ---------------------------------------------------------------------- C1
\* C1: at most one timer-started executeStrategyTrade is in flight (from its
\* balance check until it returns) in every reachable state.
C1_SingleFlightTicks == InFlightCount({"tick"}) <= 1

\* ---------------------------------------------------------------------- C2
\* C2: a manual execution is never in flight together with a timer-started
\* settlement or with another manual execution.
C2_ManualSingleFlight ==
    InFlightCount({"manual"}) >= 1 => InFlightCount(ExecKinds) = 1

\* ---------------------------------------------------------------------- C3
\* C3: a tick with a credential configured that read a balance below
\* MIN_GAS_ETH makes no transfer, returns "needs funding" with the balance read
\* and the threshold, and adds nothing to either counter.
C3_NeedsFunding ==
    (/\ Returned(ExecKinds)
     /\ PRIVATE_KEY = "valid"
     /\ returned.balance > 0
     /\ returned.balance < MIN_GAS_ETH)
    => /\ returned.outcome = NeedsFundingOutcome(returned.balance)
       /\ returned.outcome.minRequired = MIN_GAS_ETH
       /\ returned.transfers = 0 /\ returned.sends = 0
       /\ returned.dChecks = 0 /\ returned.dRealized = 0

\* ---------------------------------------------------------------------- C4
\* the invocation that returned got past the two initial checks (lines 159-170)
ReachedEvaluation(p) == p.balance >= MIN_GAS_ETH /\ p.outcome # NoKeyOutcome

\* C4: the step in which a tick evaluates a batch with no positive signal adds
\* exactly 450 to totalStrategiesExecuted, leaves totalRealizedToTreasury
\* alone and starts no transfer.
C4_NoSignalStep ==
    [][(/\ returned'.pc = "done" /\ returned'.kind \in ExecKinds
        /\ ReachedEvaluation(returned')
        /\ STRATEGIES = {})
       => /\ totalStrategiesExecuted' = totalStrategiesExecuted + 450
          /\ totalRealizedToTreasury' = totalRealizedToTreasury
          /\ returned'.outcome = NoProfitOutcome
          /\ returned'.transfers = 0 /\ returned'.sends = 0]_vars

C4_Witness ==
    /\ Returned(ExecKinds) /\ STRATEGIES = {}
    /\ ReachedEvaluation(returned)
    /\ returned.dChecks = STRATEGIES_PER_EXECUTION
    /\ totalStrategiesExecuted >= STRATEGIES_PER_EXECUTION

\* ---------------------------------------------------------------------- C5
\* C5: a tick with a credential configured that read a balance of at least
\* MIN_GAS_ETH, with at least one positive signal in the batch, calls
\* transferEth exactly once, for AGGREGATE_PROFIT_ETH and to the account's own
\* address, and submits at most one transaction.
C5_OneTransfer ==
    (/\ Returned(ExecKinds)
     /\ PRIVATE_KEY = "valid"
     /\ returned.balance >= MIN_GAS_ETH
     /\ STRATEGIES # {})
    => /\ returned.transfers = 1
       /\ returned.amountETH = AGGREGATE_PROFIT_ETH
       /\ returned.recipient = TREASURY
       /\ returned.sends <= 1

\* ---------------------------------------------------------------------- C6
\* C6: a call of transferEth whose amount is greater than the balance it read
\* has ended with the insufficient-funds error and has read no fee and
\* submitted nothing.
C6_Frame(p) ==
    (p.transfers > 0 /\ p.txBalance # Fail /\ p.amountETH > p.txBalance)
    => /\ p.pc = "done"
       /\ ErrorOf(p) = ErrInsufficient
       /\ p.feeReads = 0 /\ p.sends = 0

C6_InsufficientFunds == \A p \in InFlight \cup {returned} : C6_Frame(p)

C6_Witness ==
    /\ returned.pc = "done" /\ returned.transfers = 1
    /\ returned.txBalance # Fail /\ returned.amountETH > returned.txBalance
    /\ ErrorOf(returned) = ErrInsufficient

\* ---------------------------------------------------------------------- C7
\* what an invocation of each kind returns when signing is unavailable
SigningUnavailable(p) ==
    CASE p.kind \in ExecKinds  -> p.outcome = NoKeyOutcome
      [] p.kind = "withdraw"   -> p.http = 400 /\ p.outcome = [error |-> "Treasury private key not set. Cannot perform withdrawal."]
      [] p.kind = "transfer"   -> p.outcome = [threw |-> ErrNoSigner]
      [] OTHER                 -> TRUE

\* C7: without a credential the signer is absent in every state, every tick,
\* manual execution, withdraw request and transferEth call ends with its
\* signing-unavailable result, nothing is signed or submitted and both
\* counters stay 0.
C7_NoCredential ==
    PRIVATE_KEY = "none"
    => /\ ~signer
       /\ totalStrategiesExecuted = 0 /\ totalRealizedToTreasury = 0
       /\ \A p \in InFlight \cup {returned} : p.feeReads = 0 /\ p.sends = 0
       /\ returned.pc = "done" => SigningUnavailable(returned)

C7_Witness ==
    /\ PRIVATE_KEY = "none" /\ provider /\ monitorStatus = "connected"
    /\ Returned({"transfer"})
    /\ returned.outcome = [threw |-> ErrNoSigner]

\* ---------------------------------------------------------------------- C8
\* C8: when a tick that called transferEth returns, lastExecutionResult holds
\* that tick's own return value, with a timestamp.
C8_LastOutcomeIsOwn ==
    (Returned(ExecKinds) /\ returned.transfers > 0)
    => /\ DOMAIN lastExecutionResult = {"result", "timestamp"}
       /\ lastExecutionResult.result = returned.outcome

\* ---------------------------------------------------------------------- C9
\* the tick's outcome reports success
ReportsSuccess(p) == "success" \in DOMAIN p.outcome /\ p.outcome.success

\* C9: a tick adds to totalRealizedToTreasury, and then exactly
\* AGGREGATE_PROFIT_USD, if and only if its transfer was submitted and
\* confirmed and it returns a success outcome.
C9_RealizedIffSuccess ==
    Returned(ExecKinds)
    => /\ returned.dRealized \in {0, AGGREGATE_PROFIT_USD}
       /\ (returned.dRealized = AGGREGATE_PROFIT_USD) <=> ReportsSuccess(returned)
       /\ ReportsSuccess(returned) => returned.sends = 1 /\ returned.txHash \in TxHashes

\* --------------------------------------------------------------------- C10
\* C10: no error leaves executeStrategyTrade uncaught, every tick returns an
\* outcome value, and while the server runs the timer can start the next tick.
C10_SchedulerSurvives ==
    /\ ~crashed
    /\ Returned(ExecKinds) => /\ returned.outcome # Null
                              /\ "uncaught" \notin DOMAIN returned.outcome
    /\ (boot = "listening" /\ started < MaxStarts) => ENABLED TimerFire

C10_Witness ==
    /\ Returned({"tick"})
    /\ "mode" \in DOMAIN returned.outcome
    /\ returned.outcome.mode = "arbitrage_execution_failed"
    /\ ENABLED TimerFire

\* --------------------------------------------------------------------- C11
\* C11: every started tick eventually returns: from some point on no
\* timer-started executeStrategyTrade is in flight any more (the number of
\* ticks started in one behaviour is finite).
C11_TicksReturn == <>[](InFlightCount({"tick"}) = 0)

\* --------------------------------------------------------------------- C12
\* C12: with the threshold Q = 2 of the claim's cases, a read returns a
\* value only if at least two endpoints reported that value, and fails when
\* no value was reported by two endpoints (answers {10, 10, 7} give 10,
\* answers {10, 7, 3} fail): the answer of a single endpoint is not trusted.
C12_QuorumRead ==
    (read.state = "settled" /\ read.value # Fail)
    => Agreeing(read.responses, read.value) >= 2

\* --------------------------------------------------------------------- C13
\* a step of a GET /status request: its arrival or one of its awaits settling
StatusStep ==
    \/ StatusRequest
    \/ \E p \in InFlight :
          p.kind = "status" /\ (ConnectSettled(p) \/ BalanceSettled(p))

\* C13: no step of serving a status request changes monitorStatus, provider,
\* signer, totalStrategiesExecuted, totalRealizedToTreasury or
\* lastExecutionResult.
C13_StatusPureRead ==
    [][StatusStep => UNCHANGED <<monitorStatus, provider, signer,
                                 totalStrategiesExecuted,
                                 totalRealizedToTreasury,
                                 lastExecutionResult>>]_vars

\* --------------------------------------------------------------------- C14
\* a step of a POST /withdraw request: its arrival or one of its awaits settling
WithdrawStep ==
    \/ WithdrawRequest
    \/ \E p \in InFlight :
          /\ p.kind = "withdraw"
          /\ \/ ConnectSettled(p) \/ BalanceSettled(p)
             \/ TransferBalanceSettled(p) \/ FeeSettled(p)
             \/ SendSettled(p) \/ ConfirmSettled(p)

\* the amount of the request is not withdrawable from the balance it observed
NotWithdrawable(p) ==
    p.amountETH <= 0 \/ p.amountETH > p.balance - WITHDRAW_RESERVE

C14_Frame(p) ==
    /\ p.transfers > 0 => /\ p.transfers = 1
                          /\ p.amountETH > 0
                          /\ p.amountETH <= p.balance - WITHDRAW_RESERVE
    /\ (p.pc = "done" /\ NotWithdrawable(p))
       => /\ p.http = 400
          /\ p.outcome \in {InvalidAmountOutcome(p.balance), WithdrawNoKeyOutcome}
          /\ p.transfers = 0 /\ p.feeReads = 0 /\ p.sends = 0

C15_CountersMonotone ==
    [][LET dChecks   == totalStrategiesExecuted' - totalStrategiesExecuted
           dRealized == totalRealizedToTreasury' - totalRealizedToTreasury
           ExecReturns == returned'.pc = "done" /\ returned'.kind \in ExecKinds
       IN  /\ dChecks \in {0, STRATEGIES_PER_EXECUTION}
           /\ dRealized \in {0, AGGREGATE_PROFIT_USD}
           /\ AGGREGATE_PROFIT_USD > 0
           /\ ExecReturns
              => /\ dRealized = returned'.dRealized
                 /\ returned'.dChecks = IF ReachedEvaluation(returned')
                                        THEN STRATEGIES_PER_EXECUTION ELSE 0
           /\ ~ExecReturns => dRealized = 0
           /\ dChecks > 0
              => \/ ExecReturns /\ returned'.dChecks = dChecks
                 \/ \E p \in BagToSet(procs') :
                       /\ p.kind \in ExecKinds /\ p.pc = "txbal"
                       /\ p.dChecks = dChecks]_vars

C15_Witness ==
    /\ Returned(ExecKinds)
    /\ "mode" \in DOMAIN returned.outcome
    /\ returned.outcome.mode = "arbitrage_execution_failed"
    /\ returned.dChecks = STRATEGIES_PER_EXECUTION
    /\ totalStrategiesExecuted = 2 * STRATEGIES_PER_EXECUTION
    /\ totalRealizedToTreasury = AGGREGATE_PROFIT_USD

\* --------------------------------------------------------------------- C16
\* C16: when a timer-started executeStrategyTrade returns, whatever it
\* returns (signing unavailable, needs funding, no profitable path, failure or
\* success), lastExecutionResult is a {result, timestamp} record whose result
\* is the value this tick returned.
C16_OverwrittenEveryTick ==
    Returned({"tick"})
    => /\ lastExecutionResult # Null
       /\ "result" \in DOMAIN lastExecutionResult
       /\ "timestamp" \in DOMAIN lastExecutionResult
       /\ lastExecutionResult.result = returned.outcome

\* --------------------------------------------------------------------- C17
\* the machine of frame p in the state a step leads to
MAfter(p) ==
    [M(p) EXCEPT !.provider = provider', !.signer = signer',
                 !.monitorStatus = monitorStatus']

\* C17: a call of initProvider whose height probe was answered ends with
\* monitorStatus 'connected', one whose probe was rejected by every endpoint
\* ends with 'disconnected'; and calling it once more with the same answer
\* would leave monitorStatus, provider and signer as the first call left them.
C17_ConnectOutcome ==
    [][\A probe \in Ok \cup {Fail} : \A p \in InFlight :
          ConnectSettledWith(p, probe)
          => /\ monitorStatus' = IF probe # Fail THEN "connected" ELSE "disconnected"
             /\ LET again == InitProviderGlobals(MAfter(p), probe)
                IN  /\ again.monitorStatus = monitorStatus'
                    /\ again.provider = provider'
                    /\ again.signer = signer']_vars

\* --------------------------------------------------------------------- C18
\* C18: with a credential configured, once the signer is present no step
\* removes it or the provider, and an invocation that entered transferEth
\* past the signer check of line 127 never ends on a null signer or provider.
C18_SignerStays ==
    /\ [][(HasCredential(PRIVATE_KEY) /\ signer) => (signer' /\ provider')]_vars
    /\ [](\A p \in InFlight \cup {returned} :
             (HasCredential(PRIVATE_KEY) /\ p.transfers > 0 /\ p.pc = "done"
              /\ ErrorOf(p) # ErrNoSigner)
             => ErrorOf(p) # ErrNull)

\* --------------------------------------------------------------------- C19
\* the frames of bag b suspended at pc
AtPc(b, pc) ==
    BagCardinality([p \in {q \in BagToSet(b) : q.pc = pc} |-> b[p]])

\* a tick, manual execution, status request or withdraw request arrives
AccessStep == TimerFire \/ ManualRequest \/ StatusRequest \/ WithdrawRequest

\* C19: with a credential configured, (a) an access that arrives while the
\* provider or the signer is absent calls initProvider before any balance
\* read, (b) when the connect of an access ends connected the same access goes
\* on to provider.getBalance, and (c) a connect whose probe the endpoints
\* answer leaves the state connected, with provider and signer.
C19_LazyRetry ==
    [][HasCredential(PRIVATE_KEY)
       => /\ (AccessStep /\ (~provider \/ ~signer))
             => AtPc(procs', "init") = AtPc(procs, "init") + 1
          /\ \A p \in InFlight : \A probe \in Ok \cup {Fail} :
                ConnectSettledWith(p, probe)
                => /\ monitorStatus' = "connected"
                      => AtPc(procs', "bal") = AtPc(procs, "bal") + 1
                   /\ probe # Fail
                      => monitorStatus' = "connected" /\ provider' /\ signer']_vars

\* --------------------------------------------------------------------- C20
\* C20: in every state between two asynchronous steps, however the calls of
\* initProvider interleave: monitorStatus 'connected' implies a provider is
\* held, 'disconnected' implies neither provider nor signer is held, and a
\* signer is held only together with a provider.
C20_HandlesConsistent ==
    /\ monitorStatus = "connected" => provider
    /\ monitorStatus = "disconnected" => ~provider /\ ~signer
    /\ signer => provider

\* a failing connect took the handles away under an invocation that had
\* already connected and is waiting for its balance read or its transfer
C20_Witness ==
    /\ monitorStatus = "disconnected" /\ ~provider /\ ~signer
    /\ HasCredential(PRIVATE_KEY)
    /\ \E p \in InFlight : p.pc \in {"bal", "txbal", "fee", "send", "confirm"}

====
